---- MODULE Spec2Model ----
(***************************************************************************)
(* Model of WDL/_parser.py: the process-wide parser cache, lock and        *)
(* comment buffer used by parse(), the four public entry points, and the   *)
(* lowering rules of _DocTransformer.                                      *)
(*                                                                         *)
(* Python strings are sequences of one-character strings.  Optional[x] is  *)
(* a sequence of length at most one: None is <<>> and a value v is <<v>>.  *)
(* A dict is the sequence of its <<key, value>> pairs in insertion order.  *)
(***************************************************************************)
EXTENDS Integers, Sequences, FiniteSets, Bags, TLC

(***************************************************************************)
(* Bounds of the model.                                                    *)
(***************************************************************************)
NumThreads == 2
MaxCalls == 2
MaxPieces == 4

Threads == 1..NumThreads

(***************************************************************************)
(* Optional values.                                                        *)
(***************************************************************************)
None == <<>>
Some(v) == <<v>>
\* Python truthiness of an Optional[str] / Optional[list] / Optional[dict]
Truthy(o) == o # None /\ o[1] # <<>>

(***************************************************************************)
(* Python str operations used by the parser.                               *)
(***************************************************************************)
Whitespace == {" ", "\t", "\n", "\r"}

RECURSIVE lstrip(_)
lstrip(s) ==
  IF s = <<>> THEN <<>>
  ELSE IF Head(s) \in Whitespace THEN lstrip(Tail(s)) ELSE s

RECURSIVE rstrip(_)
rstrip(s) ==
  IF s = <<>> THEN <<>>
  ELSE IF s[Len(s)] \in Whitespace THEN rstrip(SubSeq(s, 1, Len(s) - 1)) ELSE s

\* str.strip()
strip(s) == rstrip(lstrip(s))

\* str.startswith(p)
startswith(s, p) == Len(s) >= Len(p) /\ SubSeq(s, 1, Len(p)) = p

\* str.endswith(p)
endswith(s, p) == Len(s) >= Len(p) /\ SubSeq(s, Len(s) - Len(p) + 1, Len(s)) = p

\* s[n:]
SliceFrom(s, n) == SubSeq(s, n + 1, Len(s))

\* str.split("\n"): the pieces between newlines, always at least one
RECURSIVE SplitLines(_, _)
SplitLines(s, cur) ==
  IF s = <<>> THEN <<cur>>
  ELSE IF Head(s) = "\n" THEN <<cur>> \o SplitLines(Tail(s), <<>>)
  ELSE SplitLines(Tail(s), Append(cur, Head(s)))

split(s) == SplitLines(s, <<>>)

(***************************************************************************)
(* The grammar registry (_grammar), an external collaborator.              *)
(***************************************************************************)
V_draft2 == <<"d", "r", "a", "f", "t", "-", "2">>
V_1_0 == <<"1", ".", "0">>
V_1_1 == <<"1", ".", "1">>
V_1_2 == <<"1", ".", "2">>
V_development == <<"d", "e", "v", "e", "l", "o", "p", "m", "e", "n", "t">>

\* _grammar.versions.keys(), oldest first
VersionOrder == <<V_draft2, V_1_0, V_1_1, V_1_2, V_development>>
Versions == {VersionOrder[i] : i \in 1..Len(VersionOrder)}

\* _grammar.get(version) raises KeyError for an unknown version
GrammarKnown(version) == version \in Versions
\* _grammar.get(version)[0]: one grammar text per version
Grammar(version) == <<"grammar", version>>

(***************************************************************************)
(* State.                                                                  *)
(***************************************************************************)
VARIABLES
  _lark_cache,            \* _lark_cache: the (grammar, start) keys memoized
  compiled,               \* history: the keys lark.Lark(...) built a parser for, with multiplicity
  _lark_comments_buffer,  \* _lark_comments_buffer
  _lark_lock,             \* _lark_lock: 0 when free, else the holding thread
  pc,                    \* per thread: position in the entry point / parse()
  frame,                 \* per thread: arguments and locals of the call
  result,                \* per thread: what the last call returned or raised
  ncalls,                \* calls started so far, by all threads
  arg,                   \* input of the lowering rule under study
  ret                    \* its result

vars == <<_lark_cache, compiled, _lark_comments_buffer, _lark_lock, pc, frame, result, ncalls, arg, ret>>
shared == <<_lark_cache, compiled, _lark_comments_buffer, _lark_lock>>
lowering == <<arg, ret>>

(***************************************************************************)
(* The concrete parser service (lark), an external collaborator: a lexer   *)
(* that skips whitespace, reports each comment ('#' up to the end of the   *)
(* line) to the COMMENT callback, rejects the character '!' and takes any  *)
(* other run of characters as one token.                                   *)
(***************************************************************************)
RECURSIVE SkipWs(_, _)
SkipWs(s, i) ==
  IF i <= Len(s) /\ s[i] \in Whitespace THEN SkipWs(s, i + 1) ELSE i

RECURSIVE CommentEnd(_, _)
CommentEnd(s, i) ==
  IF i <= Len(s) /\ s[i] \notin {"\n", "\r"} THEN CommentEnd(s, i + 1) ELSE i

RECURSIVE WordEnd(_, _)
WordEnd(s, i) ==
  IF i <= Len(s) /\ s[i] \notin (Whitespace \cup {"#", "!"}) THEN WordEnd(s, i + 1) ELSE i

\* a lark.Token of type COMMENT
CommentToken(s, i) == [value |-> SubSeq(s, i, CommentEnd(s, i) - 1), at |-> i]

\* txt + ("\n" if not txt.endswith("\n") else "")
Src(txt) == IF endswith(txt, <<"\n">>) THEN txt ELSE txt \o <<"\n">>

(***************************************************************************)
(* Results of the entry points.                                            *)
(***************************************************************************)
\* Tree.Document(source_text, pos, imports, structs, tasks, workflow, comments, declared)
TreeDocument(imports, structs, tasks, workflow, comments, declared) ==
  [kind |-> "Document", imports |-> imports, structs |-> structs, tasks |-> tasks,
   workflow |-> workflow, comments |-> comments, declared_version |-> declared,
   wdl_version |-> None]

\* any other value an entry point returns (Expr.Base, List[Tree.Task], Tree.Decl)
Value(kind) ==
  [kind |-> kind, imports |-> <<>>, structs |-> <<>>, tasks |-> <<>>,
   workflow |-> None, comments |-> <<>>, declared_version |-> None,
   wdl_version |-> None]

\* an exception reaching the caller, with the dialect context it carries
Raised(kind, version, declared) ==
  [kind |-> kind, imports |-> <<>>, structs |-> <<>>, tasks |-> <<>>,
   workflow |-> None, comments |-> <<>>, declared_version |-> declared,
   wdl_version |-> version]

NoResult == Value("none")

\* Error.SyntaxError(pos, message, version, declared_version)
ErrorSyntaxError(version, declared) == Raised("SyntaxError", Some(version), declared)

IdleFrame ==
  [entry |-> "", txt |-> <<>>, arg_version |-> None, version |-> <<>>, declared |-> None, start |-> "",
   pos |-> 0, exc |-> "", comments |-> <<>>]

(***************************************************************************)
(* parse(grammar, txt, start), one action per step.                        *)
(***************************************************************************)
CacheKey(t) == <<Grammar(frame[t].version), frame[t].start>>

\* a lock that excludes nobody
LockNeverHeld == TRUE

\* with _lark_lock: a thread gets the lock only when no thread holds it
LockAvailable == _lark_lock = 0

Acquire(t) ==
  /\ pc[t] = "lock"
  /\ LockAvailable
  /\ _lark_lock' = t
  /\ pc' = [pc EXCEPT ![t] = "assert"]
  /\ UNCHANGED <<_lark_cache, compiled, _lark_comments_buffer, frame, result, ncalls, lowering>>

\* assert not _lark_comments_buffer (outside the try: no finally on failure)
AssertEmpty(t) ==
  /\ pc[t] = "assert"
  /\ IF _lark_comments_buffer = <<>>
     THEN /\ pc' = [pc EXCEPT ![t] = "cache"]
          /\ UNCHANGED frame
     ELSE /\ pc' = [pc EXCEPT ![t] = "release"]
          /\ frame' = [frame EXCEPT ![t].exc = "AssertionError"]
  /\ UNCHANGED <<shared, result, ncalls, lowering>>

\* a lookup that never finds the key
NotInCache(key) == FALSE

\* (grammar, start) in _lark_cache
InCache(key) == key \in _lark_cache

\* if (grammar, start) not in _lark_cache: ... the test came out true
CacheMiss(t) ==
  /\ pc[t] = "cache"
  /\ ~InCache(CacheKey(t))
  /\ pc' = [pc EXCEPT ![t] = "compile"]
  /\ UNCHANGED <<shared, frame, result, ncalls, lowering>>

\* _lark_cache[(grammar, start)] = lark.Lark(...)
Compile(t) ==
  /\ pc[t] = "compile"
  /\ _lark_cache' = _lark_cache \cup {CacheKey(t)}
  /\ compiled' = compiled (+) SetToBag({CacheKey(t)})
  /\ pc' = [pc EXCEPT ![t] = "lex"]
  /\ frame' = [frame EXCEPT ![t].pos = 1]
  /\ UNCHANGED <<_lark_comments_buffer, _lark_lock, result, ncalls, lowering>>

\* lark.Lark(...) raises: nothing is memoized
CompileFail(t) ==
  /\ pc[t] = "compile"
  /\ pc' = [pc EXCEPT ![t] = "finally"]
  /\ frame' = [frame EXCEPT ![t].exc = "GrammarError"]
  /\ UNCHANGED <<shared, result, ncalls, lowering>>

\* the key is in the cache: the memoized parser is used
CacheHit(t) ==
  /\ pc[t] = "cache"
  /\ InCache(CacheKey(t))
  /\ pc' = [pc EXCEPT ![t] = "lex"]
  /\ frame' = [frame EXCEPT ![t].pos = 1]
  /\ UNCHANGED <<shared, result, ncalls, lowering>>

\* the buffer after the COMMENT lexer callback ran on token tok
CommentCallback(buf, tok) == Append(buf, tok)

\* _lark_cache[(grammar, start)].parse(...), one token at a time
LexStep(t) ==
  /\ pc[t] = "lex"
  /\ LET s == Src(frame[t].txt)
         i == SkipWs(s, frame[t].pos)
     IN  IF i > Len(s)
         THEN /\ pc' = [pc EXCEPT ![t] = "copy"]
              /\ UNCHANGED <<frame, _lark_comments_buffer>>
         ELSE IF s[i] = "#"
         THEN /\ _lark_comments_buffer' =
                   CommentCallback(_lark_comments_buffer, CommentToken(s, i))
              /\ frame' = [frame EXCEPT ![t].pos = CommentEnd(s, i)]
              /\ UNCHANGED pc
         ELSE IF s[i] = "!"
         THEN /\ pc' = [pc EXCEPT ![t] = "finally"]
              /\ frame' = [frame EXCEPT ![t].exc = "UnexpectedInput"]
              /\ UNCHANGED _lark_comments_buffer
         ELSE /\ frame' = [frame EXCEPT ![t].pos = WordEnd(s, i)]
              /\ UNCHANGED <<pc, _lark_comments_buffer>>
  /\ UNCHANGED <<_lark_cache, compiled, _lark_lock, result, ncalls, lowering>>

\* comments = _lark_comments_buffer.copy(); return (tree, comments)
CopyComments(t) ==
  /\ pc[t] = "copy"
  /\ frame' = [frame EXCEPT ![t].comments = _lark_comments_buffer]
  /\ pc' = [pc EXCEPT ![t] = "finally"]
  /\ UNCHANGED <<shared, result, ncalls, lowering>>

\* a finally clause that leaves the buffer as it is
BufferKept(buf) == buf

\* the buffer after the finally clause
FinallyBuffer(buf) == <<>>

\* finally: _lark_comments_buffer.clear()
Finally(t) ==
  /\ pc[t] = "finally"
  /\ _lark_comments_buffer' = FinallyBuffer(_lark_comments_buffer)
  /\ pc' = [pc EXCEPT ![t] = "release"]
  /\ UNCHANGED <<_lark_cache, compiled, _lark_lock, frame, result, ncalls, lowering>>

\* a with block that lets go of the lock on a return only
HeldAfterFailure(t) == IF frame[t].exc = "" THEN 0 ELSE t

\* the lock once thread t has left the with block, by a return or an exception
Unlocked(t) == 0

\* leaving the with block releases the lock
Release(t) ==
  /\ pc[t] = "release"
  /\ _lark_lock' = Unlocked(t)
  /\ pc' = [pc EXCEPT ![t] = "after"]
  /\ UNCHANGED <<_lark_cache, compiled, _lark_comments_buffer, frame, result, ncalls, lowering>>

(***************************************************************************)
(* The public entry points.                                                *)
(***************************************************************************)
VersionPrefix == <<"v", "e", "r", "s", "i", "o", "n", " ">>

\* for line in txt.split("\n"): ... the declared version of parse_document
RECURSIVE ScanLines(_)
ScanLines(lines) ==
  IF lines = <<>> THEN None
  ELSE LET line == strip(Head(lines))
       IN  IF line # <<>> /\ line[1] # "#"
           THEN IF startswith(line, VersionPrefix)
                THEN Some(SliceFrom(line, 8))
                ELSE None
           ELSE ScanLines(Tail(lines))

DeclaredVersion(txt) == ScanLines(split(txt))

\* version or declared_version or "draft-2"
EffectiveVersion(version, declared) ==
  IF Truthy(version) THEN version[1]
  ELSE IF Truthy(declared) THEN declared[1]
  ELSE V_draft2

\* version or <default>
VersionOr(version, default) == IF Truthy(version) THEN version[1] ELSE default

\* the call reaches parse(grammar, txt, start)
EnterParse(t, entry, start, txt, arg_version, version, declared) ==
  /\ frame' = [frame EXCEPT ![t] =
                 [entry |-> entry, txt |-> txt, arg_version |-> arg_version,
                  version |-> version,
                  declared |-> declared, start |-> start, pos |-> 0, exc |-> "",
                  comments |-> <<>>]]
  /\ pc' = [pc EXCEPT ![t] = "lock"]
  /\ result' = [result EXCEPT ![t] = NoResult]

\* the call ends before parse() with outcome r
Finish(t, entry, txt, arg_version, version, declared, r) ==
  /\ frame' = [frame EXCEPT ![t] =
                 [entry |-> entry, txt |-> txt, arg_version |-> arg_version,
                  version |-> version,
                  declared |-> declared, start |-> "", pos |-> 0, exc |-> "",
                  comments |-> <<>>]]
  /\ pc' = [pc EXCEPT ![t] = "done"]
  /\ result' = [result EXCEPT ![t] = r]

\* what parse_expr does with the KeyError of _grammar.get: none of its except
\* clauses matches it, so it reaches the caller as it is
ParseExprUnknownVersion(version) == Raised("KeyError", None, None)

parse_expr(t, txt, version) ==
  /\ pc[t] = "idle" /\ ncalls < MaxCalls
  /\ ncalls' = ncalls + 1
  /\ LET v == VersionOr(version, V_1_0)
     IN  IF GrammarKnown(v)
         THEN EnterParse(t, "parse_expr", "expr", txt, version, v, None)
         ELSE Finish(t, "parse_expr", txt, version, v, None, ParseExprUnknownVersion(v))
  /\ UNCHANGED <<shared, lowering>>

\* _parse_doctransformer up to the call of parse()
_parse_doctransformer(t, entry, terminal, txt, arg_version, version, declared) ==
  IF GrammarKnown(version)
  THEN EnterParse(t, entry, terminal, txt, arg_version, version, declared)
  ELSE Finish(t, entry, txt, arg_version, version, declared,
              ErrorSyntaxError(version, declared))

parse_tasks(t, txt, version) ==
  /\ pc[t] = "idle" /\ ncalls < MaxCalls
  /\ ncalls' = ncalls + 1
  /\ _parse_doctransformer(t, "parse_tasks", "tasks", txt, version,
                         VersionOr(version, V_draft2), None)
  /\ UNCHANGED <<shared, lowering>>

parse_bound_decl(t, txt, version) ==
  /\ pc[t] = "idle" /\ ncalls < MaxCalls
  /\ ncalls' = ncalls + 1
  /\ _parse_doctransformer(t, "parse_bound_decl", "bound_decl", txt, version,
                         VersionOr(version, V_draft2), None)
  /\ UNCHANGED <<shared, lowering>>

\* a wrong blank test: if not txt
IsBlankTextNoStrip(txt) == txt = <<>>

\* if not txt.strip()
IsBlankText(txt) == strip(txt) = <<>>

\* Tree.Document(txt, npos, [], {}, [], None, [], None)
EmptyDocument == TreeDocument(<<>>, <<>>, <<>>, None, <<>>, None)

parse_document(t, txt, version) ==
  /\ pc[t] = "idle" /\ ncalls < MaxCalls
  /\ ncalls' = ncalls + 1
  /\ IF IsBlankText(txt)
     THEN Finish(t, "parse_document", txt, version, <<>>, None, EmptyDocument)
     ELSE LET declared == DeclaredVersion(txt)
          IN  _parse_doctransformer(t, "parse_document", "document", txt, version,
                                  EffectiveVersion(version, declared), declared)
  /\ UNCHANGED <<shared, lowering>>

\* parse() returned (tree, comments) and the transformer produced its value
TransformReturn(t) ==
  /\ pc[t] = "after"
  /\ frame[t].exc = ""
  /\ result' = [result EXCEPT ![t] =
       IF frame[t].entry = "parse_document"
       THEN [TreeDocument(<<>>, <<>>, <<>>, None, frame[t].comments, frame[t].declared)
               EXCEPT !.kind = "LoweredDocument"]
       ELSE Value("Lowered")]
  /\ pc' = [pc EXCEPT ![t] = "done"]
  /\ UNCHANGED <<shared, frame, ncalls, lowering>>

LoweringErrors == {"SyntaxError", "ValidationError", "InvalidType", "MultipleDefinitions"}

\* parse() returned and a transformer callback raised: the cause is re-raised
\* with the dialect context attached
TransformRaise(t) ==
  /\ pc[t] = "after"
  /\ frame[t].exc = ""
  /\ \E k \in LoweringErrors :
       result' = [result EXCEPT ![t] =
                    Raised(k, Some(frame[t].version),
                           IF frame[t].entry = "parse_expr" THEN None ELSE frame[t].declared)]
  /\ pc' = [pc EXCEPT ![t] = "done"]
  /\ UNCHANGED <<shared, frame, ncalls, lowering>>

\* parse() raised: UnexpectedInput becomes SyntaxError, anything else passes
ParseRaised(t) ==
  /\ pc[t] = "after"
  /\ frame[t].exc # ""
  /\ result' = [result EXCEPT ![t] =
       IF frame[t].exc = "UnexpectedInput"
       THEN ErrorSyntaxError(frame[t].version,
                             IF frame[t].entry = "parse_expr" THEN None ELSE frame[t].declared)
       ELSE Raised(frame[t].exc, None, None)]
  /\ pc' = [pc EXCEPT ![t] = "done"]
  /\ UNCHANGED <<shared, frame, ncalls, lowering>>

\* the caller takes the outcome; the thread is free for its next call
Done(t) ==
  /\ pc[t] = "done"
  /\ pc' = [pc EXCEPT ![t] = "idle"]
  /\ frame' = [frame EXCEPT ![t] = IdleFrame]
  /\ result' = [result EXCEPT ![t] = NoResult]
  /\ UNCHANGED <<shared, ncalls, lowering>>

(***************************************************************************)
(* Source texts and version arguments the threads call with.               *)
(***************************************************************************)
V_unknown == <<"9">>

TxtA == <<"#", "a", "\n", "w">>
TxtB == <<"w", " ", "#", "b", "\n", "!">>
TxtBlank == <<" ", "\n", "\t">>
TxtV == VersionPrefix \o V_unknown \o <<"\n", "#", "c">>
CallTexts == {TxtA, TxtB, TxtBlank, TxtV}

CallVersions == {None, Some(V_1_0), Some(V_unknown)}

\* the module just imported: empty cache, empty buffer, free lock, no call
ParserIdle ==
  /\ _lark_cache = {}
  /\ compiled = EmptyBag
  /\ _lark_comments_buffer = <<>>
  /\ _lark_lock = 0
  /\ pc = [t \in Threads |-> "idle"]
  /\ frame = [t \in Threads |-> IdleFrame]
  /\ result = [t \in Threads |-> NoResult]
  /\ ncalls = 0

Init ==
  /\ ParserIdle
  /\ arg = <<>>
  /\ ret = <<>>

\* what the concurrent threads call with
ThreadTexts == {TxtA, TxtB}
ThreadVersions == {None, Some(V_unknown)}

ParseStep(t) ==
  \/ Acquire(t)
  \/ AssertEmpty(t)
  \/ CacheMiss(t)
  \/ Compile(t)
  \/ CompileFail(t)
  \/ CacheHit(t)
  \/ LexStep(t)
  \/ CopyComments(t)
  \/ Finally(t)
  \/ Release(t)
  \/ TransformReturn(t)
  \/ TransformRaise(t)
  \/ ParseRaised(t)
  \/ Done(t)

\* NumThreads threads calling the entry points concurrently
Next ==
  \/ \E t \in Threads, txt \in ThreadTexts, version \in ThreadVersions : parse_expr(t, txt, version)
  \/ \E t \in Threads, txt \in ThreadTexts, version \in ThreadVersions : parse_tasks(t, txt, version)
  \/ \E t \in Threads, txt \in ThreadTexts, version \in ThreadVersions : parse_bound_decl(t, txt, version)
  \/ \E t \in Threads, txt \in ThreadTexts, version \in ThreadVersions : parse_document(t, txt, version)
  \/ \E t \in Threads : ParseStep(t)

Spec == Init /\ [][Next]_vars

\* one caller, every combination of text and version argument
NextEntry ==
  \/ \E txt \in CallTexts, version \in CallVersions : parse_expr(1, txt, version)
  \/ \E txt \in CallTexts, version \in CallVersions : parse_tasks(1, txt, version)
  \/ \E txt \in CallTexts, version \in CallVersions : parse_bound_decl(1, txt, version)
  \/ \E txt \in CallTexts, version \in CallVersions : parse_document(1, txt, version)
  \/ ParseStep(1)

SpecEntry == Init /\ [][NextEntry]_vars

\* threads that call parse_expr, scheduled fairly: a thread that can take a
\* step takes one, and a thread waiting for the lock gets it if the lock comes
\* free again and again
NextFair ==
  \/ \E t \in Threads, txt \in ThreadTexts : parse_expr(t, txt, None)
  \/ \E t \in Threads : ParseStep(t)

Fairness == \A t \in Threads : WF_vars(ParseStep(t)) /\ SF_vars(Acquire(t))

SpecFair == Init /\ [][NextFair]_vars /\ Fairness

(***************************************************************************)
(* Version resolution: parse_document on texts put together from a few     *)
(* pieces, under each version argument.                                    *)
(***************************************************************************)
Pieces == {VersionPrefix, V_1_0, <<" ">>, <<"\n">>, <<"#">>, <<"w">>}

RECURSIVE Flatten(_)
Flatten(ps) == IF ps = <<>> THEN <<>> ELSE Head(ps) \o Flatten(Tail(ps))

VersionTexts == {Flatten(ps) : ps \in UNION {[1..k -> Pieces] : k \in 0..MaxPieces}}
VersionArgs == {None, Some(V_1_1), Some(V_unknown)}

InitVersion ==
  /\ ParserIdle
  /\ arg \in [txt : VersionTexts, version : VersionArgs]
  /\ ret = <<>>

NextVersion ==
  \/ parse_document(1, arg.txt, arg.version)
  \/ ParseStep(1)

SpecVersion == InitVersion /\ [][NextVersion]_vars


(***************************************************************************)
(* Lowering rules of _DocTransformer.  A rule is applied to the children   *)
(* in arg and leaves what it returns or raises in ret.                     *)
(***************************************************************************)
\* the rule returned or raised v
Lowered(rule, v) ==
  /\ ret = None
  /\ ret' = <<v, rule>>
  /\ UNCHANGED <<shared, pc, frame, result, ncalls, arg>>

\* an exception raised by a rule
Error(kind) == [kind |-> kind]

\* _grammar.get(version)[1]: the reserved words of a dialect
_keywords(version) ==
  {"task", "workflow", "call", "input", "output", "object"}
    \cup (IF version = V_draft2 THEN {} ELSE {"struct", "version"})
    \cup (IF version \in {V_draft2, V_1_0} THEN {} ELSE {"left", "right", "None"})
    \cup (IF version \in {V_draft2, V_1_0, V_1_1} THEN {} ELSE {"Directory"})

\* _check_keyword raises SyntaxError
_check_keyword(version, name) == name \in _keywords(version)

(***************************************************************************)
(* document(items)                                                         *)
(***************************************************************************)
\* a top-level item: a lowered Tree.Task, Tree.Workflow, Tree.StructTypeDef or
\* Tree.DocImport, or the lark.Tree of the version declaration
Item(ty, nm) == [type |-> ty, name |-> nm]

\* dict: the keys in insertion order
DictKeys(d) == [i \in 1..Len(d) |-> d[i][1]]
\* k in d
DictHas(d, k) == \E i \in 1..Len(d) : d[i][1] = k
\* d[k] = v
DictSet(d, k, v) ==
  IF DictHas(d, k)
  THEN [i \in 1..Len(d) |-> IF d[i][1] = k THEN <<k, v>> ELSE d[i]]
  ELSE Append(d, <<k, v>>)
\* d[k]
DictGet(d, k) == d[CHOOSE i \in 1..Len(d) : d[i][1] = k][2]

\* a document that takes a second workflow, keeping the last
WorkflowNeverSet(workflow) == FALSE

\* if workflow is not None
WorkflowSet(workflow) == workflow # None

\* a task list without repeated names
TasksAppendUnique(tasks, item) ==
  IF \E i \in 1..Len(tasks) : tasks[i].name = item.name THEN tasks ELSE Append(tasks, item)

\* tasks.append(item)
TasksAppend(tasks, item) == Append(tasks, item)

\* the loop over the items; acc.raised is the exception that ended it
RECURSIVE DocumentLoop(_, _)
DocumentLoop(items, acc) ==
  IF items = <<>> \/ acc.raised # "" THEN acc
  ELSE LET item == Head(items)
           next ==
             IF item.type = "Task"
             THEN [acc EXCEPT !.tasks = TasksAppend(acc.tasks, item)]
             ELSE IF item.type = "Workflow"
             THEN IF WorkflowSet(acc.workflow)
                  THEN [acc EXCEPT !.raised = "MultipleDefinitions"]
                  ELSE [acc EXCEPT !.workflow = Some(item)]
             ELSE IF item.type = "StructTypeDef"
             THEN IF DictHas(acc.structs, item.name)
                  THEN [acc EXCEPT !.raised = "MultipleDefinitions"]
                  ELSE [acc EXCEPT !.structs = DictSet(acc.structs, item.name, item)]
             ELSE IF item.type = "version"
             THEN acc
             ELSE IF item.type = "DocImport"
             THEN [acc EXCEPT !.imports = Append(acc.imports, item)]
             ELSE [acc EXCEPT !.raised = "AssertionError"]
       IN  DocumentLoop(Tail(items), next)

\* _DocTransformer.document with self._comments and self._declared_version
document(items, comments, declared) ==
  LET acc == DocumentLoop(items, [imports |-> <<>>, structs |-> <<>>, tasks |-> <<>>,
                                  workflow |-> None, raised |-> ""])
  IN  IF acc.raised # ""
      THEN Raised(acc.raised, None, None)
      ELSE TreeDocument(acc.imports, acc.structs, acc.tasks, acc.workflow,
                        comments, declared)

MaxItems == 3
ItemTypes == {"Task", "Workflow", "StructTypeDef", "version", "DocImport"}
ItemNames == {"a", "b"}
TopLevelItems == {Item(ty, n) : ty \in ItemTypes \ {"version"}, n \in ItemNames}
                   \cup {Item("version", "")}
ItemLists == UNION {[1..k -> TopLevelItems] : k \in 0..MaxItems}

InitDoc ==
  /\ ParserIdle
  /\ arg \in [items : ItemLists, version : Versions]
  /\ ret = None

ApplyDocument == Lowered("document", document(arg.items, <<>>, Some(arg.version)))

NextDoc == ApplyDocument

SpecDoc == InitDoc /\ [][NextDoc]_vars


(***************************************************************************)
(* type(items): the children are the constructor name token, the lowered   *)
(* type parameters and, last, the set a quantifier rule returned.          *)
(***************************************************************************)
Token(value) == [kind |-> "Token", value |-> value, quant |-> {}]
TypeParam(value) == [kind |-> "Type", value |-> value, quant |-> {}]
QuantifierSet(q) == [kind |-> "set", value |-> "", quant |-> q]

\* the rules optional, nonempty and optional_nonempty
optional == {"optional"}
nonempty == {"nonempty"}
optional_nonempty == {"optional", "nonempty"}

\* the grammar's choice of quantifier rule for a type suffix
QuantifierRule(suffix) ==
  IF suffix = <<"?">> THEN optional
  ELSE IF suffix = <<"+">> THEN nonempty
  ELSE optional_nonempty

\* len(items) > 1 and isinstance(items[-1], set)
EndsWithSet(items) == Len(items) > 1 /\ items[Len(items)].kind = "set"

\* quantifiers = items.pop(), or set()
TypeQuantifiers(items) == IF EndsWithSet(items) THEN items[Len(items)].quant ELSE {}

\* the children read without the pop
TypePositionalUnpopped(items) == items

\* items after the pop
TypePositional(items) ==
  IF EndsWithSet(items) THEN SubSeq(items, 1, Len(items) - 1) ELSE items

\* a lowered Type.Base
TypeNode(kind, name, params, is_optional, is_nonempty) ==
  [kind |-> kind, name |-> name, params |-> params, optional |-> is_optional,
   nonempty |-> is_nonempty]

TypeError(kind) == TypeNode(kind, "", <<>>, FALSE, FALSE)

\* atomic_types, with Directory outside draft-2, 1.0 and 1.1
AtomicTypes(version) ==
  {"Int", "Float", "Boolean", "String", "File"}
    \cup (IF version \notin {V_draft2, V_1_0, V_1_1} THEN {"Directory"} ELSE {})

\* _DocTransformer.type under self._version
type(version, items) ==
  LET quantifiers == TypeQuantifiers(items)
      pos == TypePositional(items)
      param == IF Len(pos) > 1 THEN Some(pos[2]) ELSE None
      param2 == IF Len(pos) > 2 THEN Some(pos[3]) ELSE None
      name == pos[1].value
      is_optional == "optional" \in quantifiers
  IN  IF name = "Array"
      THEN IF param = None \/ param2 # None
           THEN TypeError("InvalidType")
           ELSE IF quantifiers \ {"optional", "nonempty"} # {}
           THEN TypeError("ValidationError")
           ELSE TypeNode("Array", name, param, is_optional, "nonempty" \in quantifiers)
      ELSE IF "nonempty" \in quantifiers
      THEN TypeError("InvalidType")
      ELSE IF name \in AtomicTypes(version)
      THEN IF param # None \/ param2 # None
           THEN TypeError("InvalidType")
           ELSE TypeNode(name, name, <<>>, is_optional, FALSE)
      ELSE IF name = "Map"
      THEN IF ~(param # None /\ param2 # None)
           THEN TypeError("InvalidType")
           ELSE TypeNode("Map", name, param \o param2, is_optional, FALSE)
      ELSE IF name = "Pair"
      THEN IF ~(param # None /\ param2 # None)
           THEN TypeError("InvalidType")
           ELSE TypeNode("Pair", name, param \o param2, is_optional, FALSE)
      ELSE IF param # None \/ param2 # None
      THEN TypeError("InvalidType")
      ELSE TypeNode("StructInstance", name, <<>>, is_optional, FALSE)

TypeNames == {"Array", "Int", "Float", "Boolean", "String", "File", "Directory",
              "Map", "Pair", "Foo"}
ParamTypes == {TypeParam("Int"), TypeParam("Foo")}
ParamLists == UNION {[1..k -> ParamTypes] : k \in 0..2}
Suffixes == {<<>>, <<"?">>, <<"+">>, <<"+", "?">>, <<"?", "+">>}

\* the children the grammar hands to type()
TypeChildren(name, params, suffix) ==
  <<Token(name)>> \o params
    \o (IF suffix = <<>> THEN <<>> ELSE <<QuantifierSet(QuantifierRule(suffix))>>)

InitType ==
  /\ ParserIdle
  /\ arg \in [name : TypeNames, params : ParamLists, suffix : Suffixes, version : Versions]
  /\ ret = None

ApplyType == Lowered("type", type(arg.version, TypeChildren(arg.name, arg.params, arg.suffix)))

NextType == ApplyType

SpecType == InitType /\ [][NextType]_vars


(***************************************************************************)
(* The mappings: call_inputs, meta_object, runtime_section and struct.     *)
(* A child is a (key, value) tuple or the string the input_colon rule      *)
(* returns.                                                                *)
(***************************************************************************)
KV(k, v) == [kind |-> "tuple", k |-> k, v |-> v]
\* input_colon
input_colon == [kind |-> "str", k |-> "input:", v |-> ""]

\* what a mapping rule returns or raises
Mapping(kind, name, d) == [kind |-> kind, name |-> name, d |-> d]

\* for k, v in items: if k in d: raise MultipleDefinitions; d[k] = v
RECURSIVE MetaObjectLoop(_, _)
MetaObjectLoop(items, d) ==
  IF items = <<>> THEN Mapping("dict", "", d)
  ELSE IF DictHas(d, Head(items).k)
       THEN Mapping("MultipleDefinitions", "", <<>>)
       ELSE MetaObjectLoop(Tail(items), DictSet(d, Head(items).k, Head(items).v))

meta_object(items) == MetaObjectLoop(items, <<>>)

\* a runtime section with the duplicate check restored
RuntimeDuplicateChecked(d, k) == DictHas(d, k)

\* the duplicate check of runtime_section is commented out
RuntimeDuplicate(d, k) == FALSE

RECURSIVE RuntimeLoop(_, _)
RuntimeLoop(items, d) ==
  IF items = <<>> THEN Mapping("dict", "runtime", d)
  ELSE IF RuntimeDuplicate(d, Head(items).k)
       THEN Mapping("MultipleDefinitions", "", <<>>)
       ELSE RuntimeLoop(Tail(items), DictSet(d, Head(items).k, Head(items).v))

\* returns {"runtime": d}
runtime_section(items) == RuntimeLoop(items, <<>>)

\* a marker demanded by 1.1 and every dialect after it
MarkerRequiredSince11(version) == version \notin {V_draft2, V_1_0}

\* self._version == "1.1"
MarkerRequired(version) == version = V_1_1

RECURSIVE CallInputsLoop(_, _)
CallInputsLoop(items, d) ==
  IF items = <<>> THEN Mapping("dict", "", d)
  ELSE IF DictHas(d, Head(items).k)
       THEN Mapping("MultipleDefinitions", "", <<>>)
       ELSE CallInputsLoop(Tail(items), DictSet(d, Head(items).k, Head(items).v))

call_inputs(version, items) ==
  LET has_colon == items # <<>> /\ Head(items).kind = "str" /\ Head(items).k = "input:"
      rest == IF has_colon THEN Tail(items) ELSE items
  IN  IF items # <<>> /\ MarkerRequired(version) /\ ~has_colon
      THEN Mapping("SyntaxError", "", <<>>)
      ELSE CallInputsLoop(rest, <<>>)

\* the members of a struct: unbound declarations d with d.name and d.type
RECURSIVE StructLoop(_, _, _)
StructLoop(name, decls, members) ==
  IF decls = <<>> THEN Mapping("StructTypeDef", name, members)
  ELSE IF DictHas(members, Head(decls).k)
       THEN Mapping("MultipleDefinitions", "", <<>>)
       ELSE StructLoop(name, Tail(decls), DictSet(members, Head(decls).k, Head(decls).v))

\* struct: items[0] is the name
struct(version, items) ==
  IF _check_keyword(version, Head(items).k)
  THEN Mapping("SyntaxError", "", <<>>)
  ELSE StructLoop(Head(items).k, Tail(items), <<>>)

MaxPairs == 3
PairKeys == {"x", "y"}
PairValues == {"1", "2"}
PairItems == {KV(k, v) : k \in PairKeys, v \in PairValues}
PairLists == UNION {[1..n -> PairItems] : n \in 0..MaxPairs}
StructNames == {"S", "struct"}

InitMap ==
  /\ ParserIdle
  /\ arg \in [pairs : PairLists, marker : BOOLEAN, name : StructNames, version : Versions]
  /\ ret = None

ApplyCallInputs ==
  Lowered("call_inputs",
          call_inputs(arg.version,
                      (IF arg.marker THEN <<input_colon>> ELSE <<>>) \o arg.pairs))

ApplyMetaObject == Lowered("meta_object", meta_object(arg.pairs))

ApplyRuntimeSection == Lowered("runtime_section", runtime_section(arg.pairs))

ApplyStruct == Lowered("struct", struct(arg.version, <<KV(arg.name, "")>> \o arg.pairs))

NextMap ==
  \/ ApplyCallInputs
  \/ ApplyMetaObject
  \/ ApplyRuntimeSection
  \/ ApplyStruct

SpecMap == InitMap /\ [][NextMap]_vars


(***************************************************************************)
(* task(items) and workflow(items).  A child is the name token, a section  *)
(* (the single-keyed dict a section rule returned) or a body element.      *)
(***************************************************************************)
NameToken(name) == [kind |-> "Token", tag |-> name, payload |-> <<>>, idents |-> None]
\* input_decls, output_decls, meta_section, runtime_section, command, noninput_decl
Section(tag, payload) == [kind |-> "dict", tag |-> tag, payload |-> payload, idents |-> None]
\* workflow_output_decls: {"outputs": decls, "output_idents": idents, "pos": pos}
WorkflowOutputs(payload, idents) ==
  [kind |-> "dict", tag |-> "outputs", payload |-> payload, idents |-> Some(idents)]
\* Tree.Call, Tree.Conditional, Tree.Decl, Tree.Scatter
Element(kind) == [kind |-> kind, tag |-> "", payload |-> <<>>, idents |-> None]

\* d.get(k, default)
Get(d, k, default) == IF DictHas(d, k) THEN Some(DictGet(d, k)) ELSE default

\* the loop of task(); d holds the sections seen and, under "name", the name
RECURSIVE TaskLoop(_, _)
TaskLoop(items, acc) ==
  IF items = <<>> \/ acc.raised # "" THEN acc
  ELSE LET item == Head(items)
           next ==
             IF item.kind = "dict"
             THEN IF item.tag = "noninput_decl"
                  THEN [acc EXCEPT !.noninput_decls = Append(@, item.payload)]
                  ELSE IF DictHas(acc.d, item.tag)
                  THEN [acc EXCEPT !.raised = "MultipleDefinitions"]
                  ELSE [acc EXCEPT !.d = DictSet(@, item.tag, item.payload)]
             ELSE IF item.kind # "Token" \/ DictHas(acc.d, "name")
             THEN [acc EXCEPT !.raised = "AssertionError"]
             ELSE [acc EXCEPT !.d = DictSet(@, "name", item.tag)]
       IN  TaskLoop(Tail(items), next)

task(version, items) ==
  LET acc == TaskLoop(items, [d |-> <<>>, noninput_decls |-> <<>>, raised |-> ""])
      d == acc.d
  IN  IF acc.raised # "" THEN Error(acc.raised)
      ELSE IF ~DictHas(d, "name") THEN Error("KeyError")
      ELSE IF _check_keyword(version, DictGet(d, "name")) THEN Error("SyntaxError")
      ELSE IF ~DictHas(d, "command") THEN Error("KeyError")
      ELSE [kind |-> "Task",
            name |-> DictGet(d, "name"),
            inputs |-> Get(d, "inputs", None),
            noninput_decls |-> acc.noninput_decls,
            command |-> DictGet(d, "command"),
            outputs |-> Get(d, "outputs", Some(<<>>)),
            parameter_meta |-> Get(d, "parameter_meta", Some(<<>>)),
            runtime |-> Get(d, "runtime", Some(<<>>)),
            meta |-> Get(d, "meta", Some(<<>>))]

\* a workflow that passes its sections on as they are
KeepAsIs(v) == v

\* v or dict()
OrDict(v) == IF Truthy(v) THEN v ELSE Some(<<>>)

RECURSIVE WorkflowLoop(_, _)
WorkflowLoop(items, acc) ==
  IF items = <<>> \/ acc.raised # "" THEN acc
  ELSE LET item == Head(items)
           next ==
             IF item.kind = "dict"
             THEN IF item.tag = "inputs"
                  THEN IF acc.inputs # None
                       THEN [acc EXCEPT !.raised = "MultipleDefinitions"]
                       ELSE [acc EXCEPT !.inputs = Some(item.payload)]
                  ELSE IF item.tag = "outputs"
                  THEN IF acc.outputs # None
                       THEN [acc EXCEPT !.raised = "MultipleDefinitions"]
                       ELSE IF item.idents # None
                       THEN [acc EXCEPT !.outputs = Some(item.payload),
                                        !.output_idents = item.idents]
                       ELSE [acc EXCEPT !.outputs = Some(item.payload)]
                  ELSE IF item.tag = "meta"
                  THEN IF acc.meta_section # None
                       THEN [acc EXCEPT !.raised = "MultipleDefinitions"]
                       ELSE [acc EXCEPT !.meta_section = Some(item.payload)]
                  ELSE IF item.tag = "parameter_meta"
                  THEN IF acc.parameter_meta # None
                       THEN [acc EXCEPT !.raised = "MultipleDefinitions"]
                       ELSE [acc EXCEPT !.parameter_meta = Some(item.payload)]
                  ELSE [acc EXCEPT !.raised = "AssertionError"]
             ELSE IF item.kind \in {"Call", "Conditional", "Decl", "Scatter"}
             THEN [acc EXCEPT !.elements = Append(@, item)]
             ELSE [acc EXCEPT !.raised = "AssertionError"]
       IN  WorkflowLoop(Tail(items), next)

workflow(version, items) ==
  LET acc == WorkflowLoop(Tail(items),
                          [elements |-> <<>>, inputs |-> None, outputs |-> None,
                           output_idents |-> None, parameter_meta |-> None,
                           meta_section |-> None, raised |-> ""])
  IN  IF acc.raised # "" THEN Error(acc.raised)
      ELSE IF _check_keyword(version, Head(items).tag) THEN Error("SyntaxError")
      ELSE [kind |-> "Workflow",
            name |-> Head(items).tag,
            inputs |-> acc.inputs,
            body |-> acc.elements,
            outputs |-> acc.outputs,
            parameter_meta |-> OrDict(acc.parameter_meta),
            meta |-> OrDict(acc.meta_section),
            output_idents |-> acc.output_idents]

MaxSections == 3
Payloads == {<<>>, <<"x">>}
TaskChildren ==
  {Section(tag, p) : tag \in {"inputs", "outputs", "runtime", "meta", "parameter_meta"},
                     p \in Payloads}
    \cup {Section("command", <<"echo">>), Section("noninput_decl", <<"x">>)}
WorkflowChildren ==
  {Section(tag, p) : tag \in {"inputs", "outputs", "meta", "parameter_meta"}, p \in Payloads}
    \cup {WorkflowOutputs(p, <<>>) : p \in Payloads}
    \cup {Element("Call"), Element("Decl")}
SectionNames == {"t", "task"}

InitSections ==
  /\ ParserIdle
  /\ arg \in [rule : {"task"}, name : SectionNames, version : Versions,
              items : UNION {[1..n -> TaskChildren] : n \in 0..MaxSections}]
        \cup [rule : {"workflow"}, name : SectionNames, version : Versions,
              items : UNION {[1..n -> WorkflowChildren] : n \in 0..MaxSections}]
  /\ ret = None

ApplyTask ==
  /\ arg.rule = "task"
  /\ Lowered("task", task(arg.version, <<NameToken(arg.name)>> \o arg.items))

ApplyWorkflow ==
  /\ arg.rule = "workflow"
  /\ Lowered("workflow", workflow(arg.version, <<NameToken(arg.name)>> \o arg.items))

NextSections ==
  \/ ApplyTask
  \/ ApplyWorkflow

SpecSections == InitSections /\ [][NextSections]_vars


(***************************************************************************)
(* import_doc(items).  items[0] is the URI; a lark.Token after it is the   *)
(* explicit namespace; the tuples are what import_alias returned.          *)
(***************************************************************************)
\* str.rindex(c): the last position of c; 0 stands for the ValueError
RECURSIVE rindex(_, _)
rindex(s, c) ==
  IF s = <<>> THEN 0
  ELSE IF s[Len(s)] = c THEN Len(s) ELSE rindex(SubSeq(s, 1, Len(s) - 1), c)

\* s.split(c)[0]
RECURSIVE SplitFirst(_, _)
SplitFirst(s, c) ==
  IF s = <<>> \/ Head(s) = c THEN <<>> ELSE <<Head(s)>> \o SplitFirst(Tail(s), c)

Lower ==
  {"a", "b", "c", "d", "e", "f", "g", "h", "i", "j", "k", "l", "m",
   "n", "o", "p", "q", "r", "s", "t", "u", "v", "w", "x", "y", "z"}
Upper ==
  {"A", "B", "C", "D", "E", "F", "G", "H", "I", "J", "K", "L", "M",
   "N", "O", "P", "Q", "R", "S", "T", "U", "V", "W", "X", "Y", "Z"}
Digits == {"0", "1", "2", "3", "4", "5", "6", "7", "8", "9"}

\* regex.fullmatch("[a-zA-Z][a-zA-Z0-9_]*", namespace)
NameFullmatch(namespace) ==
  /\ namespace # <<>>
  /\ namespace[1] \in Lower \cup Upper
  /\ \A i \in 2..Len(namespace) : namespace[i] \in Lower \cup Upper \cup Digits \cup {"_"}

\* the characters as the str they spell
RECURSIVE Join(_)
Join(cs) == IF cs = <<>> THEN "" ELSE Head(cs) \o Join(Tail(cs))

\* the decoded string literal of the URI
UriString(uri) == [kind |-> "str", value |-> uri, to |-> <<>>]
\* the CNAME token after "as"
NamespaceToken(name) == [kind |-> "Token", value |-> name, to |-> <<>>]
\* import_alias: (items[0].value, items[1].value)
AliasTuple(name, to) == [kind |-> "tuple", value |-> name, to |-> to]

\* isinstance(x, str): a lark.Token is a str
IsStr(x) == x.kind \in {"str", "Token"}

\* a namespace inferred from the whole URI, with no cut at '/'
InferWholeUri(uri) == SplitFirst(SplitFirst(uri, "?"), ".")

\* namespace[namespace.rindex("/") + 1:] unless ValueError, then
\* .split("?")[0].split(".")[0]
InferNamespace(uri) ==
  SplitFirst(SplitFirst(SliceFrom(uri, rindex(uri, "/")), "?"), ".")

\* [p for p in items[1:] if isinstance(p, tuple)]
RECURSIVE AliasesOf(_)
AliasesOf(items) ==
  IF items = <<>> THEN <<>>
  ELSE (IF Head(items).kind = "tuple" THEN <<<<Head(items).value, Head(items).to>>>> ELSE <<>>)
         \o AliasesOf(Tail(items))

\* Tree.DocImport(pos, uri, namespace, aliases, doc=None)
DocImport(uri, namespace, aliases) ==
  [kind |-> "DocImport", uri |-> uri, namespace |-> namespace, aliases |-> aliases]

import_doc(version, declared, items) ==
  LET uri == items[1].value
      namespace == IF Len(items) > 1 /\ IsStr(items[2])
                   THEN items[2].value
                   ELSE InferNamespace(uri)
  IN  IF ~NameFullmatch(namespace) \/ Join(namespace) \in _keywords(version)
      THEN ErrorSyntaxError(version, declared)
      ELSE DocImport(uri, namespace, AliasesOf(Tail(items)))

MaxUri == 4
KwTask == <<"t", "a", "s", "k">>
KwVersion == <<"v", "e", "r", "s", "i", "o", "n">>
UriPieces == {<<"a">>, <<"1">>, <<"_">>, <<"/">>, <<"?">>, <<".">>, KwTask, KwVersion}
Uris == {Flatten(ps) : ps \in UNION {[1..k -> UriPieces] : k \in 0..MaxUri}}
\* the URIs given together with an explicit namespace
ShortUris == {u \in Uris : Len(u) <= 2}
Namespaces == {<<"n">>, <<"n", "_", "2">>, <<"2", "n">>, <<"n", ".">>, KwTask, KwVersion}
ImportAliases == {<<>>, <<AliasTuple(<<"S">>, <<"T">>)>>}
ImportVersions == {V_draft2, V_1_0}
DeclaredVersions == {None, Some(V_1_0)}

InitImport ==
  /\ ParserIdle
  /\ arg \in [uri : Uris, namespace : {None},
              aliases : ImportAliases, version : ImportVersions,
              declared : DeclaredVersions]
        \cup [uri : ShortUris, namespace : {Some(n) : n \in Namespaces},
              aliases : ImportAliases, version : ImportVersions,
              declared : DeclaredVersions]
  /\ ret = None

ApplyImportDoc ==
  Lowered("import_doc",
          import_doc(arg.version, arg.declared,
                     <<UriString(arg.uri)>>
                       \o (IF arg.namespace = None THEN <<>>
                           ELSE <<NamespaceToken(arg.namespace[1])>>)
                       \o arg.aliases))

NextImport == ApplyImportDoc

SpecImport == InitImport /\ [][NextImport]_vars


(***************************************************************************)
(* The rules that hand an identifier to _check_keyword.  A child is a      *)
(* lark.Token (a str) carrying the identifier, or something lowered        *)
(* already: an expression, a type, an input mapping.                       *)
(***************************************************************************)
CNAME(name) == [kind |-> "Token", value |-> name]
Child(kind) == [kind |-> kind, value |-> ""]

\* what a rule returns: the node built and the identifier it carries
Node(kind, name) == [kind |-> kind, name |-> name]

\* raise Error.SyntaxError(pos, "unexpected keyword ...", self._version,
\* self._declared_version) where _check_keyword finds a keyword
Checked(version, declared, name, node) ==
  IF _check_keyword(version, name) THEN ErrorSyntaxError(version, declared) ELSE node

\* the SyntaxError of _check_keyword inside task, workflow and struct, with
\* the versions it carries
WithVersions(r, version, declared) ==
  IF r.kind = "SyntaxError" THEN ErrorSyntaxError(version, declared) ELSE r

\* decl: items = [type, name, expr?]
decl(version, declared, items) ==
  Checked(version, declared, items[2].value, Node("Decl", items[2].value))

\* call: items = [callee, after..., inputs?], no name of its own
call(version, declared, items) == Node("Call", "")

\* call_as: items = [callee, alias, after..., inputs?]
call_as(version, declared, items) ==
  Checked(version, declared, items[2].value, Node("Call", items[2].value))

\* scatter: items = [variable, expr, body...]
scatter(version, declared, items) ==
  Checked(version, declared, items[1].value, Node("Scatter", items[1].value))

\* object_kv: items = [key, expr]
object_kv(version, declared, items) ==
  Checked(version, declared, items[1].value, Node("tuple", items[1].value))

\* obj: a leading str other than "object" is the struct type name
obj(version, declared, items) ==
  IF items # <<>> /\ items[1].kind = "Token" /\ items[1].value # "object"
  THEN Checked(version, declared, items[1].value, Node("Struct", items[1].value))
  ELSE Node("Struct", "")

\* left_name: items = [name]
left_name(version, declared, items) ==
  Checked(version, declared, items[1].value, Node("Get", items[1].value))

\* a member access that checks every member name
NoPairMember(name) == FALSE

\* items[1] in ("left", "right")
PairMember(name) == name \in {"left", "right"}

\* get_name: items = [expr, member]
get_name(version, declared, items) ==
  IF ~PairMember(items[2].value)
  THEN Checked(version, declared, items[2].value, Node("Get", items[2].value))
  ELSE Node("Get", items[2].value)

\* import_alias: items = [name, alias]
import_alias(version, declared, items) ==
  Checked(version, declared, items[2].value, Node("tuple", items[2].value))

Identifiers == {"x", "task", "version", "left", "right", "None", "Directory", "object"}
TokenRules ==
  {"decl", "call", "call_as", "scatter", "object_kv", "obj", "left_name", "get_name",
   "import_alias", "struct"}
NamespaceOf == [task |-> KwTask, version |-> KwVersion, x |-> <<"x">>]

InitKeyword ==
  /\ ParserIdle
  /\ \E rule \in TokenRules \cup {"task", "workflow", "import_doc"},
        name \in Identifiers, version \in Versions, declared \in DeclaredVersions :
       /\ rule = "import_doc" => name \in DOMAIN NamespaceOf
       /\ arg = [rule |-> rule, name |-> name, version |-> version, declared |-> declared,
                 items |-> IF rule = "task" THEN <<Section("command", <<"echo">>)>> ELSE <<>>,
                 pairs |-> <<>>,
                 uri |-> <<"u">>,
                 namespace |-> IF rule = "import_doc" THEN Some(NamespaceOf[name]) ELSE None,
                 aliases |-> <<>>]
  /\ ret = None

ApplyDecl ==
  /\ arg.rule = "decl"
  /\ Lowered("decl", decl(arg.version, arg.declared, <<Child("Type"), CNAME(arg.name)>>))

ApplyCall ==
  /\ arg.rule = "call"
  /\ Lowered("call", call(arg.version, arg.declared, <<Child("list"), CNAME(arg.name)>>))

ApplyCallAs ==
  /\ arg.rule = "call_as"
  /\ Lowered("call_as", call_as(arg.version, arg.declared, <<Child("list"), CNAME(arg.name)>>))

ApplyScatter ==
  /\ arg.rule = "scatter"
  /\ Lowered("scatter", scatter(arg.version, arg.declared, <<CNAME(arg.name), Child("Expr")>>))

ApplyObjectKv ==
  /\ arg.rule = "object_kv"
  /\ Lowered("object_kv",
             object_kv(arg.version, arg.declared, <<CNAME(arg.name), Child("Expr")>>))

ApplyObj ==
  /\ arg.rule = "obj"
  /\ Lowered("obj", obj(arg.version, arg.declared, <<CNAME(arg.name), Child("tuple")>>))

ApplyLeftName ==
  /\ arg.rule = "left_name"
  /\ Lowered("left_name", left_name(arg.version, arg.declared, <<CNAME(arg.name)>>))

ApplyGetName ==
  /\ arg.rule = "get_name"
  /\ Lowered("get_name",
             get_name(arg.version, arg.declared, <<Child("Expr"), CNAME(arg.name)>>))

ApplyImportAlias ==
  /\ arg.rule = "import_alias"
  /\ Lowered("import_alias",
             import_alias(arg.version, arg.declared, <<CNAME("S"), CNAME(arg.name)>>))

ApplyTaskName ==
  /\ arg.rule = "task"
  /\ Lowered("task",
             WithVersions(task(arg.version, <<NameToken(arg.name)>> \o arg.items),
                          arg.version, arg.declared))

ApplyWorkflowName ==
  /\ arg.rule = "workflow"
  /\ Lowered("workflow",
             WithVersions(workflow(arg.version, <<NameToken(arg.name)>> \o arg.items),
                          arg.version, arg.declared))

ApplyStructName ==
  /\ arg.rule = "struct"
  /\ Lowered("struct",
             WithVersions(struct(arg.version, <<KV(arg.name, "")>> \o arg.pairs),
                          arg.version, arg.declared))

ApplyImportNamespace ==
  /\ arg.rule = "import_doc"
  /\ ApplyImportDoc

NextKeyword ==
  \/ ApplyDecl
  \/ ApplyCall
  \/ ApplyCallAs
  \/ ApplyScatter
  \/ ApplyObjectKv
  \/ ApplyObj
  \/ ApplyLeftName
  \/ ApplyGetName
  \/ ApplyImportAlias
  \/ ApplyTaskName
  \/ ApplyWorkflowName
  \/ ApplyStructName
  \/ ApplyImportNamespace

SpecKeyword == InitKeyword /\ [][NextKeyword]_vars


(***************************************************************************)
(* Properties of parse() and of the entry points.                          *)
(***************************************************************************)
EntryPoints == {"parse_expr", "parse_tasks", "parse_bound_decl", "parse_document"}

\* the text holds nothing but whitespace
IsBlank(txt) == \A i \in 1..Len(txt) : txt[i] \in Whitespace

\* the comment tokens of a text, read off the text alone
RECURSIVE CommentsFrom(_, _)
CommentsFrom(s, i) ==
  IF i > Len(s) THEN <<>>
  ELSE IF s[i] = "#"
       THEN <<[value |-> SubSeq(s, i, CommentEnd(s, i) - 1), at |-> i]>>
              \o CommentsFrom(s, CommentEnd(s, i))
       ELSE CommentsFrom(s, i + 1)

OwnComments(t) == CommentsFrom(Src(frame[t].txt), 1)

\* parse() has returned (tree, comments) to thread t
ParseReturned(t) == pc[t] \in {"finally", "release", "after"} /\ frame[t].exc = ""

\* C1: whatever the interleaving and whichever calls fail, the comment list
\* parse() returns to a thread is exactly the list of comment tokens of that
\* thread's own text, and so is the comment list of the Document built from it.
C1_OwnCommentsOnly ==
  \A t \in Threads :
    /\ ParseReturned(t) => frame[t].comments = OwnComments(t)
    /\ (pc[t] = "done" /\ result[t].kind = "LoweredDocument")
         => result[t].comments = OwnComments(t)

\* C1 witness: one thread's parse returned its comments after another thread's
\* parse had failed part-way, behind a comment of its own
C1_Witness ==
  \E t, u \in Threads :
    /\ t # u
    /\ ParseReturned(t) /\ frame[t].comments # <<>>
    /\ pc[u] = "after" /\ frame[u].exc = "UnexpectedInput"
    /\ OwnComments(u) # <<>>

\* C2: a call whose effective version is not registered ends in a SyntaxError
\* carrying that version, without having reached parse().
C2_UnknownVersionSyntaxError ==
  \A t \in Threads :
    (/\ pc[t] = "done"
     /\ frame[t].entry \in EntryPoints
     /\ ~(frame[t].entry = "parse_document" /\ IsBlank(frame[t].txt))
     /\ frame[t].version \notin Versions)
      => /\ result[t].kind = "SyntaxError"
         /\ result[t].wdl_version = Some(frame[t].version)
         /\ frame[t].start = ""

\* C3: parse_document on a text of whitespace only is a single step that
\* returns the empty Document, whatever the version argument, and leaves the
\* lock, the grammar cache and the comment buffer as they were.
C3_BlankDocument ==
  [][\A t \in Threads, txt \in CallTexts, version \in CallVersions :
       (IsBlank(txt) /\ parse_document(t, txt, version))
         => /\ pc'[t] = "done"
            /\ result'[t] = EmptyDocument
            /\ UNCHANGED shared]_vars

\* C3 witness: a whitespace-only document was parsed under an unregistered
\* version while the grammar cache already held a parser
C3_Witness ==
  \E t \in Threads :
    /\ pc[t] = "done" /\ frame[t].entry = "parse_document"
    /\ frame[t].txt # <<>> /\ IsBlank(frame[t].txt)
    /\ frame[t].arg_version = Some(V_unknown)
    /\ result[t] = EmptyDocument
    /\ _lark_cache # {}

(***************************************************************************)
(* Version resolution as stated.                                           *)
(***************************************************************************)
\* the first line that is neither blank nor a comment, if there is one
RECURSIVE FirstSubstantive(_)
FirstSubstantive(lines) ==
  IF lines = <<>> THEN None
  ELSE IF lstrip(Head(lines)) = <<>> \/ Head(lstrip(Head(lines))) = "#"
       THEN FirstSubstantive(Tail(lines))
       ELSE Some(lstrip(Head(lines)))

\* (a 'version ' line with nothing after the prefix is read as declaring nothing)
StatedDeclared(txt) ==
  LET first == FirstSubstantive(split(txt))
  IN  IF /\ first # None
         /\ startswith(first[1], VersionPrefix)
         /\ strip(SliceFrom(first[1], Len(VersionPrefix))) # <<>>
      THEN Some(strip(SliceFrom(first[1], Len(VersionPrefix))))
      ELSE None

StatedEffective(txt, version) ==
  IF version # None THEN version[1]
  ELSE IF StatedDeclared(txt) # None THEN StatedDeclared(txt)[1]
  ELSE V_draft2

\* C4: for a text that is not blank, the declared version is the trimmed rest
\* of the first substantive line when that line starts with 'version ' and is
\* absent otherwise; the effective version is the explicit one, else the
\* declared one, else draft-2; the Document records the declared version.
C4_VersionResolution ==
  \A t \in Threads :
    (frame[t].entry = "parse_document" /\ ~IsBlank(frame[t].txt))
      => /\ frame[t].declared = StatedDeclared(frame[t].txt)
         /\ frame[t].version = StatedEffective(frame[t].txt, frame[t].arg_version)
         /\ result[t].kind = "LoweredDocument"
              => result[t].declared_version = StatedDeclared(frame[t].txt)

(***************************************************************************)
(* Document assembly.                                                      *)
(***************************************************************************)
OfType(items, ty) == SelectSeq(items, LAMBDA item : item.type = ty)

\* two items of type ty, the second repeating the first (same name if byName)
Repeats(items, ty, byName) ==
  \E i, j \in 1..Len(items) :
    /\ i < j
    /\ items[i].type = ty /\ items[j].type = ty
    /\ byName => items[i].name = items[j].name

\* C5: assembly raises MultipleDefinitions exactly when the items hold a second
\* workflow or a struct name seen before, whatever the dialect and the other
\* items; otherwise the Document holds the one workflow (or none), the structs
\* keyed by name in order, the imports and the tasks in source order, and
\* nothing of the version declaration.
C5_DocumentAssembly ==
  ret # None =>
    LET r == ret[1]
        items == arg.items
    IN  IF Repeats(items, "Workflow", FALSE) \/ Repeats(items, "StructTypeDef", TRUE)
        THEN r.kind = "MultipleDefinitions"
        ELSE /\ r.kind = "Document"
             /\ r.workflow = OfType(items, "Workflow")
             /\ Len(r.workflow) <= 1
             /\ DictKeys(r.structs) =
                  [i \in 1..Len(OfType(items, "StructTypeDef")) |->
                     OfType(items, "StructTypeDef")[i].name]
             /\ \A i \in 1..Len(r.structs) :
                  r.structs[i][2] = OfType(items, "StructTypeDef")[i]
             /\ r.imports = OfType(items, "DocImport")
             /\ r.tasks = OfType(items, "Task")
             /\ \A i \in 1..Len(r.imports) : r.imports[i].type # "version"
             /\ \A i \in 1..Len(r.tasks) : r.tasks[i].type # "version"

\* C5 witness: a second workflow behind a version declaration was rejected
C5_Witness ==
  /\ ret # None
  /\ Repeats(arg.items, "Workflow", FALSE)
  /\ ~Repeats(arg.items, "StructTypeDef", TRUE)
  /\ \E i \in 1..Len(arg.items) : arg.items[i].type = "version"
  /\ ret[1].kind = "MultipleDefinitions"

\* C6: two tasks of one name make assembly raise MultipleDefinitions, so the
\* task names of a returned Document are pairwise distinct.
C6_TaskNamesUnique ==
  ret # None =>
    /\ Repeats(arg.items, "Task", TRUE) => ret[1].kind = "MultipleDefinitions"
    /\ ret[1].kind = "Document" =>
         \A i, j \in 1..Len(ret[1].tasks) :
           i # j => ret[1].tasks[i].name # ret[1].tasks[j].name

\* C6 as amended: assembly does not look at task names.  It raises
\* MultipleDefinitions only for a second workflow or a repeated struct name,
\* and a returned Document holds every task of the source, those of one name too.
C6_TaskNamesNotChecked ==
  ret # None =>
    /\ ret[1].kind = "MultipleDefinitions"
         <=> (Repeats(arg.items, "Workflow", FALSE) \/ Repeats(arg.items, "StructTypeDef", TRUE))
    /\ ret[1].kind = "Document" =>
         Len(ret[1].tasks) = Cardinality({i \in 1..Len(arg.items) : arg.items[i].type = "Task"})

\* C6 witness: a Document came back holding two tasks of one name
C6_Witness ==
  /\ ret # None
  /\ Repeats(arg.items, "Task", TRUE)
  /\ ret[1].kind = "Document"
  /\ Repeats(ret[1].tasks, "Task", TRUE)

(***************************************************************************)
(* Type quantifiers.                                                       *)
(***************************************************************************)
HasChar(suffix, c) == \E i \in 1..Len(suffix) : suffix[i] = c

TypeErrors == {"InvalidType", "ValidationError"}

\* the number of parameters a constructor other than Array takes
RightArity(name, n) == IF name \in {"Map", "Pair"} THEN n = 2 ELSE n = 0

\* C7: Array with one parameter is optional iff the suffix has '?' and nonempty
\* iff it has '+', in either order; any other constructor with '+' is rejected
\* with InvalidType and otherwise, given the right number of parameters, is
\* lowered with optional iff the suffix has '?'; the parameters read are the
\* type parameters, never the quantifier set.
C7_TypeQuantifiers ==
  ret # None =>
    LET r == ret[1]
        wantOptional == HasChar(arg.suffix, "?")
        wantNonempty == HasChar(arg.suffix, "+")
    IN  /\ (arg.name = "Array" /\ Len(arg.params) = 1)
             => /\ r.kind = "Array"
                /\ r.optional = wantOptional
                /\ r.nonempty = wantNonempty
        /\ (arg.name # "Array" /\ wantNonempty) => r.kind = "InvalidType"
        /\ (arg.name # "Array" /\ ~wantNonempty /\ RightArity(arg.name, Len(arg.params)))
             => /\ r.kind \notin TypeErrors
                /\ r.optional = wantOptional
                /\ ~r.nonempty
        /\ r.kind \in {"Array", "Map", "Pair"} => r.params = arg.params

\* C7 witness: Array[Int]?+ was lowered to an optional, nonempty Array
C7_Witness ==
  /\ ret # None
  /\ arg.name = "Array" /\ Len(arg.params) = 1 /\ arg.suffix = <<"?", "+">>
  /\ ret[1].kind = "Array" /\ ret[1].optional /\ ret[1].nonempty

(***************************************************************************)
(* Call inputs and the other mappings.                                     *)
(***************************************************************************)
VersionIndex(v) == CHOOSE i \in 1..Len(VersionOrder) : VersionOrder[i] = v

\* the key/value pairs as the mapping they spell when no key repeats
AsDict(pairs) == [i \in 1..Len(pairs) |-> <<pairs[i].k, pairs[i].v>>]

KeyRepeats(pairs) ==
  \E i, j \in 1..Len(pairs) : i < j /\ pairs[i].k = pairs[j].k

\* C8: without the marker, a call with bindings is a SyntaxError under 1.1 and
\* under every dialect registered after it and is accepted under the older
\* ones; with the marker it is accepted everywhere and the marker is not among
\* the bindings.
C8_MarkerFromMandatingDialectOn ==
  (ret # None /\ ret[2] = "call_inputs" /\ arg.pairs # <<>> /\ ~KeyRepeats(arg.pairs)) =>
    IF arg.marker
    THEN ret[1].kind = "dict" /\ ret[1].d = AsDict(arg.pairs)
    ELSE IF VersionIndex(arg.version) >= VersionIndex(V_1_1)
         THEN ret[1].kind = "SyntaxError"
         ELSE ret[1].kind = "dict" /\ ret[1].d = AsDict(arg.pairs)

\* C8 as amended: without the marker, a call with bindings is a SyntaxError
\* under dialect 1.1 alone and is accepted under every other dialect, the older
\* and the newer ones; with the marker it is accepted everywhere and the
\* marker is not among the bindings.
C8_MarkerRequiredIn11Only ==
  (ret # None /\ ret[2] = "call_inputs" /\ arg.pairs # <<>> /\ ~KeyRepeats(arg.pairs)) =>
    IF ~arg.marker /\ arg.version = V_1_1
    THEN ret[1].kind = "SyntaxError"
    ELSE ret[1].kind = "dict" /\ ret[1].d = AsDict(arg.pairs)

\* C8 witness: a call without the marker was accepted under a dialect newer
\* than 1.1
C8_Witness ==
  /\ ret # None /\ ret[2] = "call_inputs"
  /\ arg.pairs # <<>> /\ ~arg.marker
  /\ VersionIndex(arg.version) > VersionIndex(V_1_1)
  /\ ret[1].kind = "dict" /\ ret[1].d = AsDict(arg.pairs)

\* the value of the last pair with key k
LastValue(pairs, k) ==
  LET last == CHOOSE i \in 1..Len(pairs) :
                /\ pairs[i].k = k
                /\ \A j \in 1..Len(pairs) : pairs[j].k = k => j <= i
  IN  pairs[last].v

\* C9: call inputs (the marker requirement met), meta objects and struct
\* members (the struct name no keyword) raise MultipleDefinitions when a key
\* repeats and otherwise are the mapping of the given pairs in order; the
\* runtime section never raises and maps each key to its last value.
C9_DuplicateKeys ==
  ret # None =>
    LET r == ret[1]
        unique == IF KeyRepeats(arg.pairs)
                  THEN r.kind = "MultipleDefinitions"
                  ELSE r.kind \notin {"MultipleDefinitions", "SyntaxError"}
                         /\ r.d = AsDict(arg.pairs)
    IN  /\ ret[2] = "meta_object" => unique
        /\ (ret[2] = "call_inputs" /\ (arg.marker \/ arg.version # V_1_1)) => unique
        /\ (ret[2] = "struct" /\ arg.name \notin _keywords(arg.version)) => unique
        /\ ret[2] = "runtime_section" =>
             /\ r.kind = "dict"
             /\ {r.d[i][1] : i \in 1..Len(r.d)} = {arg.pairs[i].k : i \in 1..Len(arg.pairs)}
             /\ \A i, j \in 1..Len(r.d) : i # j => r.d[i][1] # r.d[j][1]
             /\ \A i \in 1..Len(r.d) : r.d[i][2] = LastValue(arg.pairs, r.d[i][1])

\* C9 witness: a runtime section that repeats a key with another value was
\* accepted
C9_Witness ==
  /\ ret # None /\ ret[2] = "runtime_section"
  /\ \E i, j \in 1..Len(arg.pairs) :
       i < j /\ arg.pairs[i].k = arg.pairs[j].k /\ arg.pairs[i].v # arg.pairs[j].v
  /\ ret[1].kind = "dict"

(***************************************************************************)
(* Absent sections of tasks and workflows.                                 *)
(***************************************************************************)
Absent(tag) == \A i \in 1..Len(arg.items) : arg.items[i].tag # tag

Empty == Some(<<>>)

\* C10: in a Task and in a Workflow every optional section that the source
\* does not have is an empty list or mapping, never None.
C10_AbsentSectionsEmpty ==
  ret # None =>
    LET r == ret[1]
    IN  /\ r.kind = "Task" =>
             /\ Absent("inputs") => r.inputs = Empty
             /\ Absent("outputs") => r.outputs = Empty
             /\ Absent("parameter_meta") => r.parameter_meta = Empty
             /\ Absent("meta") => r.meta = Empty
             /\ Absent("runtime") => r.runtime = Empty
        /\ r.kind = "Workflow" =>
             /\ Absent("inputs") => r.inputs = Empty
             /\ Absent("outputs") => r.outputs = Empty
             /\ Absent("parameter_meta") => r.parameter_meta = Empty
             /\ Absent("meta") => r.meta = Empty

\* C10 as amended: an absent outputs, parameter_meta, runtime or meta section
\* of a Task and an absent parameter_meta or meta section of a Workflow is an
\* empty list or mapping; an absent inputs section of a Task or a Workflow and
\* an absent outputs section of a Workflow is None.
C10_AbsentSectionsEmptyButInputs ==
  ret # None =>
    LET r == ret[1]
    IN  /\ r.kind = "Task" =>
             /\ Absent("inputs") => r.inputs = None
             /\ Absent("outputs") => r.outputs = Empty
             /\ Absent("parameter_meta") => r.parameter_meta = Empty
             /\ Absent("meta") => r.meta = Empty
             /\ Absent("runtime") => r.runtime = Empty
        /\ r.kind = "Workflow" =>
             /\ Absent("inputs") => r.inputs = None
             /\ Absent("outputs") => r.outputs = None
             /\ Absent("parameter_meta") => r.parameter_meta = Empty
             /\ Absent("meta") => r.meta = Empty

\* C10 witness: a Workflow with no section at all was assembled
C10_Witness ==
  /\ ret # None /\ ret[1].kind = "Workflow"
  /\ \A i \in 1..Len(arg.items) : arg.items[i].kind # "dict"
  /\ ret[1].inputs = None /\ ret[1].outputs = None
  /\ ret[1].parameter_meta = Empty /\ ret[1].meta = Empty


(***************************************************************************)
(* Imports.                                                                *)
(***************************************************************************)
Positions(s, c) == {i \in 1..Len(s) : s[i] = c}

\* the text after the final c, the whole text when it holds no c
AfterFinal(s, c) ==
  IF Positions(s, c) = {} THEN s
  ELSE LET last == CHOOSE i \in Positions(s, c) : \A j \in Positions(s, c) : j <= i
       IN  SubSeq(s, last + 1, Len(s))

\* the text cut at the first c
CutAtFirst(s, c) ==
  IF Positions(s, c) = {} THEN s
  ELSE LET first == CHOOSE i \in Positions(s, c) : \A j \in Positions(s, c) : i <= j
       IN  SubSeq(s, 1, first - 1)

StatedNamespace ==
  IF arg.namespace = None
  THEN CutAtFirst(CutAtFirst(AfterFinal(arg.uri, "/"), "?"), ".")
  ELSE arg.namespace[1]

\* a letter followed by letters, digits or underscores
IsIdentifier(n) ==
  /\ Len(n) >= 1
  /\ \A i \in 1..Len(n) :
       \/ n[i] \in Lower \cup Upper
       \/ i > 1 /\ n[i] \in Digits \cup {"_"}

\* C11: the namespace of an import is the explicit one or, without it, the
\* URI's text after its final '/', cut at the first '?' and then at the first
\* '.'; the import is lowered with that namespace exactly when it is an
\* identifier and no keyword of the dialect, and is a SyntaxError otherwise.
C11_ImportNamespace ==
  (ret # None /\ ret[2] = "import_doc") =>
    IF IsIdentifier(StatedNamespace) /\ Join(StatedNamespace) \notin _keywords(arg.version)
    THEN /\ ret[1].kind = "DocImport"
         /\ ret[1].namespace = StatedNamespace
         /\ ret[1].uri = arg.uri
    ELSE ret[1].kind = "SyntaxError"

\* C11 witness: a namespace was inferred from a URI that holds a '/', a '?'
\* and a '.'
C11_Witness ==
  /\ ret # None /\ ret[2] = "import_doc"
  /\ arg.namespace = None
  /\ Positions(arg.uri, "/") # {} /\ Positions(arg.uri, "?") # {} /\ Positions(arg.uri, ".") # {}
  /\ ret[1].kind = "DocImport"
  /\ ret[1].namespace # arg.uri


(***************************************************************************)
(* Keyword collisions.                                                     *)
(***************************************************************************)
\* the rules that lower an identifier the author of the document chose
NamingRules ==
  {"decl", "task", "workflow", "struct", "call_as", "scatter", "object_kv", "obj",
   "left_name", "get_name", "import_doc", "import_alias"}

\* the identifier: here is one unless the literal starts with the marker
\* "object", which stands for a literal of no named type
HasIdentifier == ~(arg.rule = "obj" /\ arg.name = "object")

IsKeyword == arg.name \in _keywords(arg.version)

\* the member names 'left' and 'right' of a member access
Exempt == arg.rule = "get_name" /\ arg.name \in {"left", "right"}

\* C12: each identifier the document lowerer lowers (declaration, task,
\* workflow and struct names, call aliases, scatter variables, keys and type
\* names of literals, identifiers and member names of expressions, import
\* namespaces and alias names) that is a keyword of the dialect is a
\* SyntaxError carrying the version and the declared version, but for the
\* member names 'left' and 'right'; an identifier that is no keyword passes.
C12_KeywordCollision ==
  (ret # None /\ arg.rule \in NamingRules /\ HasIdentifier) =>
    IF IsKeyword /\ ~Exempt
    THEN /\ ret[1].kind = "SyntaxError"
         /\ ret[1].wdl_version = Some(arg.version)
         /\ ret[1].declared_version = arg.declared
    ELSE ret[1].kind # "SyntaxError"

\* C12 witness: a declaration named by a keyword of its dialect was rejected
\* in a document that declares a version
C12_Witness ==
  /\ ret # None /\ arg.rule = "decl" /\ IsKeyword /\ arg.declared # None
  /\ ret[1].kind = "SyntaxError"


(***************************************************************************)
(* The parse lock.                                                         *)
(***************************************************************************)
\* thread t is inside the with block of parse()
InSection(t) == pc[t] \in {"assert", "cache", "compile", "lex", "copy", "finally", "release"}

\* thread t left parse() by an exception of kind exc
HasRaised(t, exc) == pc[t] \in {"after", "done"} /\ frame[t].exc = exc

\* C13: at most one thread is inside the section of parse() that gets the
\* parser and runs it, and a thread at the assertion that opens the section
\* finds the comment buffer empty, whatever the earlier parses did.
C13_OneParseAtATime ==
  /\ \A t, u \in Threads : (InSection(t) /\ InSection(u)) => t = u
  /\ \A t \in Threads : InSection(t) => _lark_lock = t
  /\ \A t \in Threads : pc[t] = "assert" => _lark_comments_buffer = <<>>
  /\ \A t \in Threads : frame[t].exc # "AssertionError"

\* C13 witness: a thread passed the assertion after another thread's parse
\* had raised with a comment already in the buffer
C13_Witness ==
  \E t, u \in Threads :
    /\ t # u
    /\ pc[t] = "cache"
    /\ HasRaised(u, "UnexpectedInput") /\ frame[u].txt = TxtB
    /\ CommentsFrom(Src(TxtB), 1) # <<>>


(***************************************************************************)
(* The grammar cache.                                                      *)
(***************************************************************************)
\* thread t is running a parser or is about to
UsesParser(t) == pc[t] \in {"lex", "copy"}

\* two calls of parse() for one key, the later of them in progress
LaterParse(t, u) ==
  /\ t # u
  /\ UsesParser(t)
  /\ pc[u] \in {"after", "done"}
  /\ <<Grammar(frame[u].version), frame[u].start>> = CacheKey(t)

\* C14: in every interleaving a parser is built at most once for each
\* (grammar, start) key; the keys in the cache are the keys a parser was
\* built for, none is dropped or built again, also after a parse that failed;
\* every parse runs the parser memoized under its key.
C14_CompiledOnce ==
  /\ \A key \in BagToSet(compiled) : CopiesIn(key, compiled) = 1
  /\ BagToSet(compiled) = _lark_cache
  /\ \A t \in Threads : UsesParser(t) => CacheKey(t) \in _lark_cache

\* C14 witness: a parse runs the parser another thread's call built for the
\* same key, and that call's own parse failed
C14_Witness ==
  \E t, u \in Threads :
    /\ LaterParse(t, u)
    /\ frame[u].exc = "UnexpectedInput"
    /\ CopiesIn(CacheKey(t), compiled) = 1


(***************************************************************************)
(* Progress.                                                               *)
(***************************************************************************)
\* thread t has called parse() and waits for the lock
Waiting(t) == pc[t] = "lock"

\* parse() has returned to thread t or raised
Left(t) == pc[t] = "after"

\* C15: under fair scheduling every thread that calls parse() gets the lock
\* and later leaves parse() by a return or an exception; it leaves with the
\* lock released and lets go of the lock with the comment buffer empty, so a
\* parse that failed blocks no other thread.
C15_ParseCompletes ==
  /\ \A t \in Threads : Waiting(t) ~> (_lark_lock = t)
  /\ \A t \in Threads : Waiting(t) ~> Left(t)
  /\ [](\A t \in Threads : Left(t) => _lark_lock # t)
  /\ [](\A t \in Threads : pc[t] = "release" => _lark_comments_buffer = <<>>)

\* C15 witness: a thread holds the lock after another thread's parse failed
C15_Witness ==
  \E t, u \in Threads :
    /\ t # u
    /\ _lark_lock = t /\ InSection(t)
    /\ HasRaised(u, "UnexpectedInput")

====
